---- MODULE Spec2Model ----
(***************************************************************************)
(* Model of the in-process job queue of LinkedInHarvester                  *)
(* (server/services/job-queue.ts), together with the parts of the result   *)
(* sink (server/storage.ts) and of the HTTP routes that it touches.        *)
(*                                                                         *)
(* One state variable per field of JobQueue and of the storage; one action *)
(* per handler or per code segment between two suspension points (await)   *)
(* of startProcessing / processJob / extractProfileWithRetry.              *)
(*                                                                         *)
(* The browser side is modelled next to it, each part on variables of its  *)
(* own: the two versions of apiRequest, retryWithBackoff and the           *)
(* useOptimisticUpdates hook.                                              *)
(***************************************************************************)
EXTENDS Integers, Sequences, FiniteSets, TLC

(* ------------------------------ bounds --------------------------------- *)
MaxJobs == 2        \* jobs submitted in one behaviour
MaxUrls == 2        \* longest URL list the item source resolver returns
MaxBatch == 2       \* largest batch size submitted
MaxResumes == 1     \* effective resumeJob calls in one behaviour
MaxItems == 1       \* URLs in all the uploaded files of one behaviour together
MaxPrior == 1       \* job rows persisted before the server process started
MaxRefreshes == 2   \* token refreshes of one apiRequest call that are followed
MaxRetriesOption == 3   \* largest maxRetries option passed to retryWithBackoff
MaxMutations == 2   \* mutations started on the optimistic query key

(* ------------------------- program constants --------------------------- *)
MaxRetries == 3        \* maxRetries, as passed to extractProfileWithRetry
InitialDelay == 1000   \* first backoff delay of extractProfileWithRetry, in ms
TotalProfilesMock == 100   \* totalProfiles, as POST /api/jobs/start records it on every job
DefaultBatchSize == 50     \* the batch size POST /api/jobs/start passes when none is stored

VARIABLES
  jobs,          \* JobQueue.jobs: Map<number, ProcessingJob>, in insertion order (key = index)
  processing,    \* JobQueue.processing
  currentJobId,  \* JobQueue.currentJobId
  runs,          \* per queue id: the frame of the processJob call in progress (and of the loop awaiting it)
  store,         \* storage: the persisted job rows (key = index)
  profiles,      \* storage: the profile rows of each persisted job, in creation order
  results,       \* the export written by excelProcessor.saveJobResults, per persisted job
  token,         \* the job owner's linkedinAccessToken is set
  files,         \* the URL list of each job's uploaded file, once it has been read
  hist,          \* history, per queue id: what was requested and observed so far
  resumes,       \* number of effective resumeJob calls so far
  localStorage,  \* browser: the keys of window.localStorage that apiRequest reads and writes
  api,           \* browser: the apiRequest call in progress
  retry,         \* browser: the retryWithBackoff call in progress
  cache,         \* browser: the query cache entry of the optimistic query key
  mutations,     \* browser: the mutations started through useOptimisticUpdates
  isOptimistic   \* browser: the isOptimistic state of the hook

queueVars == <<jobs, processing, currentJobId, runs, store, profiles, results, token, files, hist, resumes>>

clientVars == <<localStorage, api, retry, cache, mutations, isOptimistic>>

vars == <<jobs, processing, currentJobId, runs, store, profiles, results, token, files, hist, resumes,
          localStorage, api, retry, cache, mutations, isOptimistic>>

(* ------------------------------ helpers -------------------------------- *)
Min(a, b) == IF a < b THEN a ELSE b

Ids == 1..MaxJobs

BatchSizes == 1..MaxBatch

\* the batch size submitted where several jobs are in the queue: one item per
\* batch, so that the loop head is reached after every item
QueueBatchSizes == {1}

\* URLs are only ever compared for equality (profiles.find), so URL lists are
\* taken up to renaming: the k-th new URL of a list is called k.
RECURSIVE MaxOf(_)
MaxOf(s) == IF s = <<>> THEN 0
            ELSE LET m == MaxOf(SubSeq(s, 1, Len(s) - 1))
                 IN IF s[Len(s)] > m THEN s[Len(s)] ELSE m

RECURSIVE ListsOfLen(_)
ListsOfLen(n) ==
  IF n = 0 THEN {<<>>}
  ELSE {Append(s, u) : s \in ListsOfLen(n - 1), u \in 1..n}

UrlLists == {s \in UNION {ListsOfLen(n) : n \in 0..MaxUrls} :
               \A k \in 1..Len(s) : s[k] <= MaxOf(SubSeq(s, 1, k - 1)) + 1}

\* The three items of the end-to-end scenario of the specification
ScenarioUrls == <<1, 2, 3>>

\* A file with one URL more than the total recorded on the job
LongUrls == [k \in 1..(TotalProfilesMock + 1) |-> k]

FileLists == UrlLists \cup {ScenarioUrls}

Unread == <<0>>

\* the number of URLs in the files read so far
RECURSIVE TotalItems(_)
TotalItems(fs) ==
  IF fs = <<>> THEN 0
  ELSE (IF Head(fs) = Unread THEN 0 ELSE Len(Head(fs))) + TotalItems(Tail(fs))

\* Error messages of the extraction capability, as the set of the markers
\* that categorizeError looks for in the message text.
Messages == {{}, {"captcha"}, {"not_found"}, {"access_restricted"}, {"rate_limit"}}

\* What one call of aiProfileExtractor.extractProfileFromURL does: it returns a
\* profile, or it throws an error with one of the messages.
Success == [ok |-> TRUE, message |-> {}]

Failure(message) == [ok |-> FALSE, message |-> message]

Outcomes == {Success} \cup {Failure(m) : m \in Messages}

\* the outcomes drawn where several jobs are in the queue: a success, an error
\* that is not retried and an error that is
QueueOutcomes == {Success, Failure({"not_found"}), Failure({"rate_limit"})}

ErrorKinds == {"captcha", "not_found", "access_restricted", "rate_limit", "unknown"}

categorizeError(message) ==
  IF "captcha" \in message \/ "challenge" \in message THEN "captcha"
  ELSE IF "not_found" \in message \/ "404" \in message THEN "not_found"
  ELSE IF "access_restricted" \in message \/ "403" \in message THEN "access_restricted"
  ELSE IF "rate_limit" \in message \/ "429" \in message THEN "rate_limit"
  ELSE "unknown"

\* The end-to-end scenario of the specification: item 1 succeeds, item 2 is
\* not found, item 3 is rate limited once and then succeeds.
Scenario(item, attempt) ==
  IF item = 1 /\ attempt = 1 THEN {Success}
  ELSE IF item = 2 /\ attempt = 1 THEN {Failure({"not_found"})}
  ELSE IF item = 3 /\ attempt = 1 THEN {Failure({"rate_limit"})}
  ELSE IF item = 3 /\ attempt = 2 THEN {Success}
  ELSE {}

(* ------------------------------ storage -------------------------------- *)
\* the user every route acts for (const userId = 1), and the users a query may name
MockUser == 1

Users == {1, 2}

NewStoredJob(bs) ==
  [userId |-> MockUser, status |-> "pending", batchSize |-> bs, started |-> FALSE,
   totalProfiles |-> TotalProfilesMock, processedProfiles |-> 0, successfulProfiles |-> 0, failedProfiles |-> 0,
   resultPath |-> FALSE]

createJob(st, bs) == Append(st, NewStoredJob(bs))

updateJobStatus(st, id, status) ==
  IF id \in DOMAIN st THEN [st EXCEPT ![id].status = status] ELSE st

updateJobStarted(st, id) ==
  IF id \in DOMAIN st THEN [st EXCEPT ![id].status = "processing", ![id].started = TRUE] ELSE st

updateJobProgress(st, id, p, s, f) ==
  IF id \in DOMAIN st
  THEN [st EXCEPT ![id].status = "processing", ![id].processedProfiles = p,
                  ![id].successfulProfiles = s, ![id].failedProfiles = f]
  ELSE st

\* (variant: the status completed is stored without the result reference)
updateJobCompletedNoPath(st, id) ==
  IF id \in DOMAIN st THEN [st EXCEPT ![id].status = "completed"] ELSE st

updateJobCompleted(st, id) ==
  IF id \in DOMAIN st THEN [st EXCEPT ![id].status = "completed", ![id].resultPath = TRUE] ELSE st

Active(job) == job.status = "processing" \/ job.status = "paused"

\* MemStorage.getActiveJob: the first job of the user, in insertion order, that
\* is processing or paused (0: undefined)
MemGetActiveJob(st, userId) ==
  LET hits == {k \in DOMAIN st : st[k].userId = userId /\ Active(st[k])}
  IN IF hits = {} THEN 0 ELSE CHOOSE k \in hits : \A m \in hits : k <= m

\* DatabaseStorage.getActiveJob: one row of the user is selected (limit(1),
\* with no ORDER BY: whichever row the database returns first), and it is
\* returned when it is processing or paused.  The set of the possible results.
DbGetActiveJob(st, userId) ==
  LET rows == {k \in DOMAIN st : st[k].userId = userId}
  IN IF rows = {} THEN {0} ELSE {IF Active(st[k]) THEN k ELSE 0 : k \in rows}

NewProfile(url) == [linkedinUrl |-> url, status |-> "pending", errorType |-> "none"]

\* one storage.createProfile call per URL, in the order of the list
createProfiles(ps, urls) == ps \o [k \in 1..Len(urls) |-> NewProfile(urls[k])]

\* profiles.find(p => p.linkedinUrl === url): index of the first match, 0 if none
findProfile(ps, url) ==
  IF \E k \in DOMAIN ps : ps[k].linkedinUrl = url
  THEN CHOOSE k \in DOMAIN ps : /\ ps[k].linkedinUrl = url
                                /\ \A m \in 1..(k - 1) : ps[m].linkedinUrl # url
  ELSE 0

updateProfileStatus(ps, k, status, errorType) ==
  IF k \in DOMAIN ps
  THEN [ps EXCEPT ![k].status = status,
                  ![k].errorType = IF status = "failed" THEN errorType ELSE @]
  ELSE ps

(* ----------------------------- job queue ------------------------------- *)
NoRun ==
  [pc |-> "none", urls |-> <<>>, i |-> 0, j |-> 0,
   processed |-> 0, successful |-> 0, failed |-> 0,
   retryCount |-> 0, delay |-> 0, errorType |-> "none",
   batchNo |-> 0, rounds |-> 0, pausedBatch |-> 0, concl |-> "none", onScript |-> FALSE]

NewRun(first) == [NoRun EXCEPT !.pc = "parse", !.onScript = first]

NoHist == [stopped |-> FALSE, halted |-> 0, started |-> 0]

\* (variant: the scan returns the pending job inserted last)
getNextJobLast(js) ==
  IF \E k \in DOMAIN js : js[k].status = "pending"
  THEN CHOOSE k \in DOMAIN js : /\ js[k].status = "pending"
                                /\ \A m \in (k + 1)..Len(js) : js[m].status # "pending"
  ELSE 0

\* JobQueue.getNextJob: the first pending job in the insertion order of the Map
getNextJob(js) ==
  IF \E k \in DOMAIN js : js[k].status = "pending"
  THEN CHOOSE k \in DOMAIN js : /\ js[k].status = "pending"
                                /\ \A m \in 1..(k - 1) : js[m].status # "pending"
  ELSE 0

\* startProcessing from the point where this.processing is known to be set (or
\* is being set), up to its first suspension point: the scan of getNextJob and,
\* when a pending job is found, the synchronous head of processJob (status
\* 'processing', the updateJobStatus call).  rs is the run table without the
\* frame of the loop that is scanning.
LoopScan(js, st, rs) ==
  LET n == getNextJob(js)
  IN IF n = 0
     THEN [jobs |-> js, store |-> st, runs |-> rs, processing |-> FALSE, picked |-> 0]
     ELSE [jobs |-> [js EXCEPT ![n].status = "processing"],
           store |-> updateJobStarted(st, js[n].data.jobId),
           runs |-> [rs EXCEPT ![n] = NewRun(hist[n].started = 0)],
           processing |-> TRUE, picked |-> n]

\* startProcessing as called from addJob and resumeJob
startProcessing(js, st, rs) ==
  IF processing
  THEN [jobs |-> js, store |-> st, runs |-> rs, processing |-> processing, picked |-> 0]
  ELSE LoopScan(js, st, rs)

NoteStart(h, n) == IF n = 0 THEN h ELSE [h EXCEPT ![n].started = @ + 1]

(* ------------------------ browser: idle values ------------------------- *)
\* window.localStorage: whether the keys accessToken and refreshToken are set,
\* and what the key auth holds (nothing, an access token only, or both tokens)
EmptyStorage == [accessToken |-> FALSE, refreshToken |-> FALSE, auth |-> "none"]

Storages == [accessToken : BOOLEAN, refreshToken : BOOLEAN, auth : {"none", "access", "both"}]

\* no apiRequest call was made (requests: the requests the call has sent)
NoCall == [version |-> 0, pc |-> "idle", requests |-> <<>>, error |-> "none"]

\* no retryWithBackoff call was made
NoRetry ==
  [pc |-> "idle", maxRetries |-> 0, attempt |-> 0, invocations |-> 0,
   onRetry |-> <<>>, errors |-> <<>>, delay |-> 0, thrown |-> <<>>]

\* query data: undefined, or a list of items
Undefined == [defined |-> FALSE, items |-> <<>>]

Data(items) == [defined |-> TRUE, items |-> items]

NoCache == [data |-> Undefined, before |-> Undefined, stale |-> FALSE]

NoMutation == [pc |-> "idle", variables |-> 0, previousData |-> Undefined]

ClientIdle ==
  /\ localStorage = EmptyStorage
  /\ api = NoCall
  /\ retry = NoRetry
  /\ cache = NoCache
  /\ mutations = [m \in 1..MaxMutations |-> NoMutation]
  /\ isOptimistic = FALSE

Init ==
  /\ jobs = <<>>
  /\ processing = FALSE
  /\ currentJobId = 1
  /\ runs = [id \in Ids |-> NoRun]
  /\ store = <<>>
  /\ profiles = <<>>
  /\ results = <<>>
  /\ token \in BOOLEAN
  /\ files = <<>>
  /\ hist = [id \in Ids |-> NoHist]
  /\ resumes = 0
  /\ ClientIdle

\* (variant: addJob starts a loop without looking at this.processing)
addJobAlwaysStarts(data, st) ==
  LET jobId == currentJobId
      job == [id |-> jobId, data |-> data, status |-> "pending", retryCount |-> 0]
      js == Append(jobs, job)
      r == LoopScan(js, st, runs)
  IN /\ currentJobId' = currentJobId + 1
     /\ jobs' = r.jobs
     /\ store' = r.store
     /\ runs' = r.runs
     /\ processing' = r.processing
     /\ hist' = NoteStart(hist, r.picked)

\* JobQueue.addJob
addJob(data, st) ==
  LET jobId == currentJobId
      job == [id |-> jobId, data |-> data, status |-> "pending", retryCount |-> 0]
      js == Append(jobs, job)
      r == IF ~processing THEN startProcessing(js, st, runs)
           ELSE [jobs |-> js, store |-> st, runs |-> runs, processing |-> processing, picked |-> 0]
  IN /\ currentJobId' = currentJobId + 1
     /\ jobs' = r.jobs
     /\ store' = r.store
     /\ runs' = r.runs
     /\ processing' = r.processing
     /\ hist' = NoteStart(hist, r.picked)

\* POST /api/jobs/start: storage.createJob, then jobQueue.addJob
StartJob(bs) ==
  /\ Len(jobs) < MaxJobs
  /\ LET st == createJob(store, bs)
         job == st[Len(st)]
     IN addJob([jobId |-> Len(st), userId |-> 1,
                batchSize |-> IF job.batchSize = 0 THEN DefaultBatchSize ELSE job.batchSize], st)
  /\ profiles' = Append(profiles, <<>>)
  /\ results' = Append(results, <<>>)
  /\ files' = Append(files, Unread)
  /\ UNCHANGED <<token, resumes>>

\* (variant: pauseJob pauses a job whatever its status)
PauseJobAnyStatus(jobId) ==
  /\ IF jobId \in DOMAIN jobs
     THEN jobs' = [jobs EXCEPT ![jobId].status = "paused"]
     ELSE jobs' = jobs
  /\ runs' = [runs EXCEPT ![jobId].onScript = FALSE,
                          ![jobId].pausedBatch =
                             IF /\ jobId \in DOMAIN jobs
                                /\ runs[jobId].pc \in {"extract", "backoff", "itemDelay", "batchDelay"}
                                /\ @ = 0
                             THEN runs[jobId].batchNo ELSE @]
  /\ UNCHANGED <<processing, currentJobId, store, profiles, results, token, files, hist, resumes>>

\* JobQueue.pauseJob
PauseJob(jobId) ==
  /\ IF jobId \in DOMAIN jobs /\ jobs[jobId].status = "processing"
     THEN jobs' = [jobs EXCEPT ![jobId].status = "paused"]
     ELSE jobs' = jobs
  /\ runs' = [runs EXCEPT ![jobId].onScript = FALSE,
                          ![jobId].pausedBatch =
                             IF /\ jobId \in DOMAIN jobs
                                /\ runs[jobId].pc \in {"extract", "backoff", "itemDelay", "batchDelay"}
                                /\ @ = 0
                             THEN runs[jobId].batchNo ELSE @]
  /\ UNCHANGED <<processing, currentJobId, store, profiles, results, token, files, hist, resumes>>

\* JobQueue.stopJob
StopJob(jobId) ==
  /\ IF jobId \in DOMAIN jobs
     THEN /\ jobs' = [jobs EXCEPT ![jobId].status = "failed"]
          /\ hist' = [hist EXCEPT ![jobId].stopped = TRUE]
     ELSE UNCHANGED <<jobs, hist>>
  /\ runs' = [runs EXCEPT ![jobId].onScript = FALSE]
  /\ UNCHANGED <<processing, currentJobId, store, profiles, results, token, files, resumes>>

\* (variant: resumeJob sets the job pending and does not start the loop)
ResumeJobNoWake(jobId) ==
  IF jobId \in DOMAIN jobs /\ jobs[jobId].status = "paused"
  THEN /\ resumes < MaxResumes
       /\ resumes' = resumes + 1
       /\ jobs' = [jobs EXCEPT ![jobId].status = "pending"]
       /\ runs' = [runs EXCEPT ![jobId].onScript = FALSE]
       /\ UNCHANGED <<processing, currentJobId, store, profiles, results, token, files, hist>>
  ELSE UNCHANGED vars

\* JobQueue.resumeJob
ResumeJob(jobId) ==
  IF jobId \in DOMAIN jobs /\ jobs[jobId].status = "paused"
  THEN /\ resumes < MaxResumes
       /\ resumes' = resumes + 1
       /\ LET js == [jobs EXCEPT ![jobId].status = "pending"]
              r == IF ~processing THEN startProcessing(js, store, runs)
                   ELSE [jobs |-> js, store |-> store, runs |-> runs,
                         processing |-> processing, picked |-> 0]
          IN /\ jobs' = r.jobs
             /\ store' = r.store
             /\ runs' = [r.runs EXCEPT ![jobId].onScript = FALSE]
             /\ processing' = r.processing
             /\ hist' = NoteStart(hist, r.picked)
       /\ UNCHANGED <<currentJobId, profiles, results, token, files>>
  ELSE UNCHANGED vars

\* storage.updateUserLinkedInTokens (the OAuth callback stores the owner's token)
SetToken ==
  /\ ~token
  /\ token' = TRUE
  /\ UNCHANGED <<jobs, processing, currentJobId, runs, store, profiles, results, files, hist, resumes>>

(* ------------------------- processJob, by segment ---------------------- *)
JobIdOf(id) == jobs[id].data.jobId

\* the catch block of processJob: the job fails, in the queue and in the storage
Fail(id) ==
  /\ jobs' = [jobs EXCEPT ![id].status = "failed"]
  /\ store' = updateJobStatus(store, JobIdOf(id), "failed")
  /\ runs' = [runs EXCEPT ![id].pc = "returned", ![id].onScript = FALSE]
  /\ UNCHANGED <<hist>>

\* the start of one item: the first call of extractProfileWithRetry's loop
BeginItem(r, j) ==
  [r EXCEPT !.pc = "extract", !.j = j, !.retryCount = 0, !.delay = InitialDelay,
            !.errorType = "none", !.concl = "none"]

\* Array.prototype.slice(start, end) on a list of n elements: the 0-based
\* position that an index stands for (a negative index counts from the end)
SliceIndex(k, n) == IF k < 0 THEN (IF n + k < 0 THEN 0 ELSE n + k) ELSE Min(k, n)

slice(s, start, end) == SubSeq(s, SliceIndex(start, Len(s)) + 1, SliceIndex(end, Len(s)))

\* the batch of the run: linkedinUrls.slice(i, i + batchSize)
BatchOf(id, r) == slice(r.urls, r.i, r.i + jobs[id].data.batchSize)

\* the body of the for loop over the batches is entered: the first item of the
\* batch starts, or the batch is empty and the 5 s delay begins at once
\* (batchNo counts the batches that hold an item)
EnterBatch(id, r) ==
  IF BatchOf(id, r) = <<>>
  THEN [r EXCEPT !.pc = "batchDelay", !.j = 0]
  ELSE BeginItem([r EXCEPT !.batchNo = @ + 1], 1)

\* (variant: the loop head halts on a paused job only)
BatchCheckPausedOnly(id, r) ==
  IF ~(r.i < Len(r.urls))
  THEN /\ jobs' = [jobs EXCEPT ![id].status = "completed"]
       /\ runs' = [runs EXCEPT ![id] = [r EXCEPT !.pc = "export"]]
       /\ UNCHANGED hist
  ELSE IF jobs[id].status = "paused"
  THEN /\ runs' = [runs EXCEPT ![id] = [r EXCEPT !.pc = "returned"]]
       /\ hist' = [hist EXCEPT ![id].halted = r.processed]
       /\ UNCHANGED jobs
  ELSE /\ runs' = [runs EXCEPT ![id] = EnterBatch(id, r)]
       /\ UNCHANGED <<jobs, hist>>

\* (variant: the loop head halts on a failed job only)
BatchCheckFailedOnly(id, r) ==
  IF ~(r.i < Len(r.urls))
  THEN /\ jobs' = [jobs EXCEPT ![id].status = "completed"]
       /\ runs' = [runs EXCEPT ![id] = [r EXCEPT !.pc = "export"]]
       /\ UNCHANGED hist
  ELSE IF jobs[id].status = "failed"
  THEN /\ runs' = [runs EXCEPT ![id] = [r EXCEPT !.pc = "returned"]]
       /\ hist' = [hist EXCEPT ![id].halted = r.processed]
       /\ UNCHANGED jobs
  ELSE /\ runs' = [runs EXCEPT ![id] = EnterBatch(id, r)]
       /\ UNCHANGED <<jobs, hist>>

\* the head of the for loop over the batches, entered with i already advanced:
\* the loop ends (the job is completed), or the run halts because the job is
\* no longer processing, or the next batch starts with its first item
BatchCheck(id, r) ==
  IF ~(r.i < Len(r.urls))
  THEN /\ jobs' = [jobs EXCEPT ![id].status = "completed"]
       /\ runs' = [runs EXCEPT ![id] = [r EXCEPT !.pc = "export"]]
       /\ UNCHANGED hist
  ELSE IF jobs[id].status # "processing"
  THEN /\ runs' = [runs EXCEPT ![id] = [r EXCEPT !.pc = "returned"]]
       /\ hist' = [hist EXCEPT ![id].halted = r.processed]
       /\ UNCHANGED jobs
  ELSE /\ runs' = [runs EXCEPT ![id] = EnterBatch(id, r)]
       /\ UNCHANGED <<jobs, hist>>

\* excelProcessor.parseLinkedInUrls returns; an empty list is thrown as an error
\* (fresh: the lists a file that was not read before may turn out to hold)
Parse(id, urls, fresh) ==
  /\ runs[id].pc = "parse"
  /\ IF files[JobIdOf(id)] = Unread THEN urls \in fresh ELSE urls = files[JobIdOf(id)]
  /\ files' = [files EXCEPT ![JobIdOf(id)] = urls]
  /\ IF Len(urls) = 0
     THEN Fail(id)
     ELSE /\ runs' = [runs EXCEPT ![id].pc = "create", ![id].urls = urls]
          /\ UNCHANGED <<jobs, store, hist>>
  /\ UNCHANGED <<processing, currentJobId, profiles, results, token, resumes>>

\* the loop of storage.createProfile calls: one pending record per URL
CreateProfiles(id) ==
  /\ runs[id].pc = "create"
  /\ profiles' = [profiles EXCEPT ![JobIdOf(id)] = createProfiles(@, runs[id].urls)]
  /\ runs' = [runs EXCEPT ![id].pc = "getUser"]
  /\ UNCHANGED <<jobs, processing, currentJobId, store, results, token, files, hist, resumes>>

\* (variant: the batch loop is entered whether or not a token is stored)
GetUserIgnoresToken(id) ==
  /\ runs[id].pc = "getUser"
  /\ BatchCheck(id, [runs[id] EXCEPT !.i = 0, !.processed = 0,
                                     !.successful = 0, !.failed = 0])
  /\ UNCHANGED store
  /\ UNCHANGED <<processing, currentJobId, profiles, results, token, files, resumes>>

\* storage.getUser returns; without a token the job fails, else the counters
\* are initialised and the batch loop is entered
GetUser(id) ==
  /\ runs[id].pc = "getUser"
  /\ IF ~token
     THEN Fail(id)
     ELSE /\ BatchCheck(id, [runs[id] EXCEPT !.i = 0, !.processed = 0,
                                            !.successful = 0, !.failed = 0])
          /\ UNCHANGED store
  /\ UNCHANGED <<processing, currentJobId, profiles, results, token, files, resumes>>

\* (variant: a failed item is counted as processed but not as failed)
ConcludeFailedNotCounted(id, r, status, errorType) ==
  LET url == BatchOf(id, r)[r.j]
      ps == profiles[JobIdOf(id)]
      successful == IF status = "success" THEN r.successful + 1 ELSE r.successful
      processed == r.processed + 1
  IN /\ profiles' = [profiles EXCEPT ![JobIdOf(id)] =
                        updateProfileStatus(ps, findProfile(ps, url), status, errorType)]
     /\ store' = updateJobProgress(store, JobIdOf(id), processed, successful, r.failed)
     /\ runs' = [runs EXCEPT ![id] =
                    [r EXCEPT !.pc = "itemDelay", !.processed = processed,
                              !.successful = successful,
                              !.retryCount = 0, !.delay = 0, !.errorType = "none",
                              !.concl = IF status = "success" THEN "success" ELSE errorType]]

\* the item is concluded: its record is updated (the first record of the job
\* with its URL), the counters are incremented and the progress is persisted
Conclude(id, r, status, errorType) ==
  LET url == BatchOf(id, r)[r.j]
      ps == profiles[JobIdOf(id)]
      successful == IF status = "success" THEN r.successful + 1 ELSE r.successful
      failed == IF status = "failed" THEN r.failed + 1 ELSE r.failed
      processed == r.processed + 1
  IN /\ profiles' = [profiles EXCEPT ![JobIdOf(id)] =
                        updateProfileStatus(ps, findProfile(ps, url), status, errorType)]
     /\ store' = updateJobProgress(store, JobIdOf(id), processed, successful, failed)
     /\ runs' = [runs EXCEPT ![id] =
                    [r EXCEPT !.pc = "itemDelay", !.processed = processed,
                              !.successful = successful, !.failed = failed,
                              !.retryCount = 0, !.delay = 0, !.errorType = "none",
                              !.concl = IF status = "success" THEN "success" ELSE errorType]]

\* (variant: only access_restricted ends the attempts at once)
ExtractRetriesNotFound(id, out) ==
  /\ runs[id].pc = "extract"
  /\ LET r0 == runs[id]
         item == r0.i + r0.j
         r == [r0 EXCEPT !.onScript = @ /\ out \in Scenario(item, r0.retryCount + 1)]
         errorType == categorizeError(out.message)
     IN IF out.ok
        THEN Conclude(id, r, "success", "none")
        ELSE IF errorType = "access_restricted"
        THEN Conclude(id, r, "failed", errorType)
        ELSE IF r.retryCount + 1 >= MaxRetries
        THEN Conclude(id, r, "failed", errorType)
        ELSE /\ runs' = [runs EXCEPT ![id] =
                            [r EXCEPT !.retryCount = @ + 1, !.pc = "backoff",
                                      !.errorType = errorType]]
             /\ UNCHANGED <<profiles, store>>
  /\ UNCHANGED <<jobs, processing, currentJobId, results, token, files, hist, resumes>>

\* (variant: an item whose attempts are exhausted aborts the job)
ExtractAbortsWhenExhausted(id, out) ==
  /\ runs[id].pc = "extract"
  /\ LET r0 == runs[id]
         item == r0.i + r0.j
         r == [r0 EXCEPT !.onScript = @ /\ out \in Scenario(item, r0.retryCount + 1)]
         errorType == categorizeError(out.message)
     IN IF out.ok
        THEN Conclude(id, r, "success", "none") /\ UNCHANGED <<jobs, hist>>
        ELSE IF errorType = "access_restricted" \/ errorType = "not_found"
        THEN Conclude(id, r, "failed", errorType) /\ UNCHANGED <<jobs, hist>>
        ELSE IF r.retryCount + 1 >= MaxRetries
        THEN Fail(id) /\ UNCHANGED profiles
        ELSE /\ runs' = [runs EXCEPT ![id] =
                            [r EXCEPT !.retryCount = @ + 1, !.pc = "backoff",
                                      !.errorType = errorType]]
             /\ UNCHANGED <<profiles, store, jobs, hist>>
  /\ UNCHANGED <<processing, currentJobId, results, token, files, resumes>>

\* one call of aiProfileExtractor.extractProfileFromURL returns or throws
Extract(id, out) ==
  /\ runs[id].pc = "extract"
  /\ LET r0 == runs[id]
         item == r0.i + r0.j
         r == [r0 EXCEPT !.onScript = @ /\ out \in Scenario(item, r0.retryCount + 1)]
         errorType == categorizeError(out.message)
     IN IF out.ok
        THEN Conclude(id, r, "success", "none")
        ELSE IF errorType = "access_restricted" \/ errorType = "not_found"
        THEN Conclude(id, r, "failed", errorType)
        ELSE IF r.retryCount + 1 >= MaxRetries
        THEN Conclude(id, r, "failed", errorType)
        ELSE /\ runs' = [runs EXCEPT ![id] =
                            [r EXCEPT !.retryCount = @ + 1, !.pc = "backoff",
                                      !.errorType = errorType]]
             /\ UNCHANGED <<profiles, store>>
  /\ UNCHANGED <<jobs, processing, currentJobId, results, token, files, hist, resumes>>

\* (variant: the delay is not doubled)
BackoffConstantDelay(id) ==
  /\ runs[id].pc = "backoff"
  /\ runs' = [runs EXCEPT ![id].pc = "extract", ![id].errorType = "none"]
  /\ UNCHANGED <<jobs, processing, currentJobId, store, profiles, results, token, files, hist, resumes>>

\* the backoff delay has elapsed: the delay doubles and the item is tried again
Backoff(id) ==
  /\ runs[id].pc = "backoff"
  /\ runs' = [runs EXCEPT ![id].pc = "extract", ![id].delay = @ * 2,
                          ![id].errorType = "none"]
  /\ UNCHANGED <<jobs, processing, currentJobId, store, profiles, results, token, files, hist, resumes>>

\* the 2 s delay after an item has elapsed: the next item of the batch starts,
\* or the batch is over and the 5 s delay begins
ItemDelay(id) ==
  /\ runs[id].pc = "itemDelay"
  /\ IF runs[id].j < Len(BatchOf(id, runs[id]))
     THEN runs' = [runs EXCEPT ![id] = BeginItem(runs[id], runs[id].j + 1)]
     ELSE runs' = [runs EXCEPT ![id].pc = "batchDelay"]
  /\ UNCHANGED <<jobs, processing, currentJobId, store, profiles, results, token, files, hist, resumes>>

\* i += batchSize.  Below -n every index stands for position 0 of the list, so
\* that every further batch is empty and i < n holds: i is kept down to -n.
AdvanceIndex(i, batchSize, n) == IF i + batchSize < -n THEN -n ELSE i + batchSize

\* (variant: i += 1 after a batch)
BatchDelayAdvancesByOne(id) ==
  /\ runs[id].pc = "batchDelay"
  /\ BatchCheck(id, [runs[id] EXCEPT !.i = @ + 1, !.rounds = 1 - @])
  /\ UNCHANGED <<processing, currentJobId, store, profiles, results, token, files, resumes>>

\* the 5 s delay after a batch has elapsed: i += batchSize and the loop head
\* (rounds: the number of the rounds of the loop made so far, modulo 2)
BatchDelay(id) ==
  /\ runs[id].pc = "batchDelay"
  /\ BatchCheck(id, [runs[id] EXCEPT
                       !.i = AdvanceIndex(@, jobs[id].data.batchSize, Len(runs[id].urls)),
                       !.rounds = 1 - @])
  /\ UNCHANGED <<processing, currentJobId, store, profiles, results, token, files, resumes>>

\* (variant: the error kind is left out of the rows)
ExportRowsWithoutErrorType(ps) ==
  [k \in DOMAIN ps |-> [url |-> ps[k].linkedinUrl, status |-> ps[k].status,
                        errorType |-> "none"]]

\* one row of the export per profile record of the job
ExportRows(ps) ==
  [k \in DOMAIN ps |-> [url |-> ps[k].linkedinUrl, status |-> ps[k].status,
                        errorType |-> ps[k].errorType]]

\* after the loop: the records are read, the export is saved and the job is
\* persisted as completed with its resultPath
Export(id) ==
  /\ runs[id].pc = "export"
  /\ results' = [results EXCEPT ![JobIdOf(id)] = ExportRows(profiles[JobIdOf(id)])]
  /\ store' = updateJobCompleted(store, JobIdOf(id))
  /\ runs' = [runs EXCEPT ![id].pc = "returned"]
  /\ UNCHANGED <<jobs, processing, currentJobId, profiles, token, files, hist, resumes>>

\* processJob has returned: the while loop of startProcessing scans again
Rescan(id) ==
  /\ runs[id].pc = "returned"
  /\ LET r == LoopScan(jobs, store, [runs EXCEPT ![id] = NoRun])
     IN /\ jobs' = r.jobs
        /\ store' = r.store
        /\ runs' = r.runs
        /\ processing' = r.processing
        /\ hist' = NoteStart(hist, r.picked)
  /\ UNCHANGED <<currentJobId, profiles, results, token, files, resumes>>

(* --------------------- collaborators that throw ------------------------ *)
\* The calls of processJob into the storage, the file reader and the export
\* writer are awaited inside its try block; each of the actions below is one
\* such call rejecting.  sinkOk tells whether the storage.updateJobStatus call
\* of the catch block itself succeeds.

\* the message of an error thrown by the storage: none of the markers
SinkError == {}

\* the catch block of processJob (lines 296-301).  When its own storage call
\* rejects, processJob rejects and so does startProcessing: the loop is gone
\* and this.processing is left as it is.
Abort(id, sinkOk) ==
  /\ jobs' = [jobs EXCEPT ![id].status = "failed"]
  /\ store' = IF sinkOk THEN updateJobStatus(store, JobIdOf(id), "failed") ELSE store
  /\ runs' = [runs EXCEPT ![id].pc = IF sinkOk THEN "returned" ELSE "crashed",
                          ![id].onScript = FALSE]
  /\ UNCHANGED hist

\* what the attempt that returns out means for the item: concluded as success,
\* concluded as failed, or tried again
FinalStatus(r, out) ==
  IF out.ok THEN "success"
  ELSE IF categorizeError(out.message) \in {"access_restricted", "not_found"} THEN "failed"
  ELSE IF r.retryCount + 1 >= MaxRetries THEN "failed"
  ELSE "retry"

\* excelProcessor.parseLinkedInUrls throws
ParseThrows(id, sinkOk) ==
  /\ runs[id].pc = "parse"
  /\ Abort(id, sinkOk)
  /\ UNCHANGED <<processing, currentJobId, profiles, results, token, files, resumes>>

\* storage.createProfile throws after n records were created
CreateThrows(id, n, sinkOk) ==
  /\ runs[id].pc = "create"
  /\ n < Len(runs[id].urls)
  /\ profiles' = [profiles EXCEPT ![JobIdOf(id)] = createProfiles(@, SubSeq(runs[id].urls, 1, n))]
  /\ Abort(id, sinkOk)
  /\ UNCHANGED <<processing, currentJobId, results, token, files, resumes>>

\* storage.getUser throws
GetUserThrows(id, sinkOk) ==
  /\ runs[id].pc = "getUser"
  /\ Abort(id, sinkOk)
  /\ UNCHANGED <<processing, currentJobId, profiles, results, token, files, resumes>>

\* the attempt returned a profile and a storage call of the item's try block
\* (getProfilesByJob, updateProfileStatus 'success') throws: the item's catch
\* block takes the error for an error of the item
RecordThrows(id) ==
  /\ runs[id].pc = "extract"
  /\ Conclude(id, [runs[id] EXCEPT !.onScript = FALSE], "failed", categorizeError(SinkError))
  /\ UNCHANGED <<jobs, processing, currentJobId, results, token, files, hist, resumes>>

\* the item is over (out is its last attempt) and a storage call of the item's
\* catch block throws
CatchRecordThrows(id, out, sinkOk) ==
  /\ runs[id].pc = "extract"
  /\ FinalStatus(runs[id], out) # "retry"
  /\ Abort(id, sinkOk)
  /\ UNCHANGED <<processing, currentJobId, profiles, results, token, files, resumes>>

\* the item is over and recorded, and the storage.updateJobStatus call that
\* persists the progress throws
ProgressThrows(id, out, sinkOk) ==
  /\ runs[id].pc = "extract"
  /\ FinalStatus(runs[id], out) # "retry"
  /\ LET r == runs[id]
         ps == profiles[JobIdOf(id)]
         url == BatchOf(id, r)[r.j]
     IN profiles' = [profiles EXCEPT ![JobIdOf(id)] =
                        updateProfileStatus(ps, findProfile(ps, url), FinalStatus(r, out),
                                            categorizeError(out.message))]
  /\ Abort(id, sinkOk)
  /\ UNCHANGED <<processing, currentJobId, results, token, files, resumes>>

\* storage.getProfilesByJob or excelProcessor.saveJobResults throws after the
\* batch loop
ExportThrows(id, sinkOk) ==
  /\ runs[id].pc = "export"
  /\ Abort(id, sinkOk)
  /\ UNCHANGED <<processing, currentJobId, profiles, results, token, files, resumes>>

\* Several jobs in the queue, few items in all
Next ==
  \/ /\ \E bs \in QueueBatchSizes : StartJob(bs)
     /\ UNCHANGED clientVars
  \/ /\ \E id \in Ids : PauseJob(id)
     /\ UNCHANGED clientVars
  \/ /\ \E id \in Ids : StopJob(id)
     /\ UNCHANGED clientVars
  \/ /\ \E id \in Ids : ResumeJob(id)
     /\ UNCHANGED clientVars
  \/ /\ SetToken
     /\ UNCHANGED clientVars
  \/ /\ \E id \in DOMAIN jobs, urls \in FileLists :
           Parse(id, urls, {u \in UrlLists : TotalItems(files) + Len(u) <= MaxItems})
     /\ UNCHANGED clientVars
  \/ /\ \E id \in DOMAIN jobs : CreateProfiles(id)
     /\ UNCHANGED clientVars
  \/ /\ \E id \in DOMAIN jobs : GetUser(id)
     /\ UNCHANGED clientVars
  \/ /\ \E id \in DOMAIN jobs, out \in QueueOutcomes : Extract(id, out)
     /\ UNCHANGED clientVars
  \/ /\ \E id \in DOMAIN jobs : Backoff(id)
     /\ UNCHANGED clientVars
  \/ /\ \E id \in DOMAIN jobs : ItemDelay(id)
     /\ UNCHANGED clientVars
  \/ /\ \E id \in DOMAIN jobs : BatchDelay(id)
     /\ UNCHANGED clientVars
  \/ /\ \E id \in DOMAIN jobs : Export(id)
     /\ UNCHANGED clientVars
  \/ /\ \E id \in DOMAIN jobs : Rescan(id)
     /\ UNCHANGED clientVars

Spec == Init /\ [][Next]_vars

\* One job in the queue, with every URL list (and the list of the end-to-end
\* scenario) and every outcome of an attempt
NextOne ==
  \/ /\ \E bs \in BatchSizes : Len(jobs) < 1 /\ StartJob(bs)
     /\ UNCHANGED clientVars
  \/ /\ PauseJob(1)
     /\ UNCHANGED clientVars
  \/ /\ StopJob(1)
     /\ UNCHANGED clientVars
  \/ /\ ResumeJob(1)
     /\ UNCHANGED clientVars
  \/ /\ SetToken
     /\ UNCHANGED clientVars
  \/ /\ \E id \in DOMAIN jobs, urls \in FileLists : Parse(id, urls, FileLists)
     /\ UNCHANGED clientVars
  \/ /\ \E id \in DOMAIN jobs : CreateProfiles(id)
     /\ UNCHANGED clientVars
  \/ /\ \E id \in DOMAIN jobs : GetUser(id)
     /\ UNCHANGED clientVars
  \/ /\ \E id \in DOMAIN jobs, out \in Outcomes : Extract(id, out)
     /\ UNCHANGED clientVars
  \/ /\ \E id \in DOMAIN jobs : Backoff(id)
     /\ UNCHANGED clientVars
  \/ /\ \E id \in DOMAIN jobs : ItemDelay(id)
     /\ UNCHANGED clientVars
  \/ /\ \E id \in DOMAIN jobs : BatchDelay(id)
     /\ UNCHANGED clientVars
  \/ /\ \E id \in DOMAIN jobs : Export(id)
     /\ UNCHANGED clientVars
  \/ /\ \E id \in DOMAIN jobs : Rescan(id)
     /\ UNCHANGED clientVars

SpecOne == Init /\ [][NextOne]_vars

\* Several jobs in the queue, few items in all, and collaborators that throw
\* (jobs are paused and resumed, none is stopped)
NextFault ==
  \/ /\ \E bs \in QueueBatchSizes : StartJob(bs)
     /\ UNCHANGED clientVars
  \/ /\ \E id \in Ids : PauseJob(id)
     /\ UNCHANGED clientVars
  \/ /\ \E id \in Ids : ResumeJob(id)
     /\ UNCHANGED clientVars
  \/ /\ SetToken
     /\ UNCHANGED clientVars
  \/ /\ \E id \in DOMAIN jobs, urls \in FileLists :
           Parse(id, urls, {u \in UrlLists : TotalItems(files) + Len(u) <= MaxItems})
     /\ UNCHANGED clientVars
  \/ /\ \E id \in DOMAIN jobs : CreateProfiles(id)
     /\ UNCHANGED clientVars
  \/ /\ \E id \in DOMAIN jobs : GetUser(id)
     /\ UNCHANGED clientVars
  \/ /\ \E id \in DOMAIN jobs, out \in QueueOutcomes : Extract(id, out)
     /\ UNCHANGED clientVars
  \/ /\ \E id \in DOMAIN jobs : Backoff(id)
     /\ UNCHANGED clientVars
  \/ /\ \E id \in DOMAIN jobs : ItemDelay(id)
     /\ UNCHANGED clientVars
  \/ /\ \E id \in DOMAIN jobs : BatchDelay(id)
     /\ UNCHANGED clientVars
  \/ /\ \E id \in DOMAIN jobs : Export(id)
     /\ UNCHANGED clientVars
  \/ /\ \E id \in DOMAIN jobs : Rescan(id)
     /\ UNCHANGED clientVars
  \/ /\ \E id \in DOMAIN jobs, sinkOk \in BOOLEAN : ParseThrows(id, sinkOk)
     /\ UNCHANGED clientVars
  \/ /\ \E id \in DOMAIN jobs, n \in 0..MaxUrls, sinkOk \in BOOLEAN : CreateThrows(id, n, sinkOk)
     /\ UNCHANGED clientVars
  \/ /\ \E id \in DOMAIN jobs, sinkOk \in BOOLEAN : GetUserThrows(id, sinkOk)
     /\ UNCHANGED clientVars
  \/ /\ \E id \in DOMAIN jobs : RecordThrows(id)
     /\ UNCHANGED clientVars
  \/ /\ \E id \in DOMAIN jobs, out \in QueueOutcomes, sinkOk \in BOOLEAN :
           CatchRecordThrows(id, out, sinkOk)
     /\ UNCHANGED clientVars
  \/ /\ \E id \in DOMAIN jobs, out \in QueueOutcomes, sinkOk \in BOOLEAN :
           ProgressThrows(id, out, sinkOk)
     /\ UNCHANGED clientVars
  \/ /\ \E id \in DOMAIN jobs, sinkOk \in BOOLEAN : ExportThrows(id, sinkOk)
     /\ UNCHANGED clientVars

SpecFault == Init /\ [][NextFault]_vars

\* One job with the default batch size on a file that holds more URLs than the
\* total recorded at submission; every attempt succeeds
NextLong ==
  \/ /\ Len(jobs) < 1 /\ StartJob(DefaultBatchSize)
     /\ UNCHANGED clientVars
  \/ /\ SetToken
     /\ UNCHANGED clientVars
  \/ /\ \E id \in DOMAIN jobs : Parse(id, LongUrls, {LongUrls})
     /\ UNCHANGED clientVars
  \/ /\ \E id \in DOMAIN jobs : CreateProfiles(id)
     /\ UNCHANGED clientVars
  \/ /\ \E id \in DOMAIN jobs : GetUser(id)
     /\ UNCHANGED clientVars
  \/ /\ \E id \in DOMAIN jobs : Extract(id, Success)
     /\ UNCHANGED clientVars
  \/ /\ \E id \in DOMAIN jobs : ItemDelay(id)
     /\ UNCHANGED clientVars
  \/ /\ \E id \in DOMAIN jobs : BatchDelay(id)
     /\ UNCHANGED clientVars
  \/ /\ \E id \in DOMAIN jobs : Export(id)
     /\ UNCHANGED clientVars
  \/ /\ \E id \in DOMAIN jobs : Rescan(id)
     /\ UNCHANGED clientVars

SpecLong == Init /\ [][NextLong]_vars

(* ------------------------------ HTTP routes ---------------------------- *)
\* The routes address a job by its persisted id (req.params.id).  The storage
\* is the database, which outlives the server process, while the JobQueue is
\* built anew with each process: the rows of earlier processes are there when
\* the queue starts empty.

\* the ids a request may name
PersistedIds == 1..(MaxPrior + MaxJobs)

\* the row of a job of an earlier process, which was stopped
PriorRow == [NewStoredJob(DefaultBatchSize) EXCEPT !.status = "failed", !.started = TRUE]

InitRoutes ==
  /\ jobs = <<>>
  /\ processing = FALSE
  /\ currentJobId = 1
  /\ runs = [id \in Ids |-> NoRun]
  /\ \E n \in 0..MaxPrior :
       /\ store = [k \in 1..n |-> PriorRow]
       /\ profiles = [k \in 1..n |-> <<>>]
       /\ results = [k \in 1..n |-> <<>>]
       /\ files = [k \in 1..n |-> Unread]
  /\ token \in BOOLEAN
  /\ hist = [id \in Ids |-> NoHist]
  /\ resumes = 0
  /\ ClientIdle

\* POST /api/jobs/:id/pause: storage.updateJobStatus(jobId, 'paused'), then
\* jobQueue.pauseJob(jobId)
PauseRoute(jobId) ==
  /\ store' = updateJobStatus(store, jobId, "paused")
  /\ IF jobId \in DOMAIN jobs /\ jobs[jobId].status = "processing"
     THEN jobs' = [jobs EXCEPT ![jobId].status = "paused"]
     ELSE jobs' = jobs
  /\ IF jobId \in Ids
     THEN runs' = [runs EXCEPT ![jobId].onScript = FALSE,
                               ![jobId].pausedBatch =
                                  IF /\ jobId \in DOMAIN jobs
                                     /\ runs[jobId].pc \in {"extract", "backoff", "itemDelay", "batchDelay"}
                                     /\ @ = 0
                                  THEN runs[jobId].batchNo ELSE @]
     ELSE runs' = runs
  /\ UNCHANGED <<processing, currentJobId, profiles, results, token, files, hist, resumes>>

\* POST /api/jobs/:id/stop: storage.updateJobStatus(jobId, 'failed'), then
\* jobQueue.stopJob(jobId)
StopRoute(jobId) ==
  /\ store' = updateJobStatus(store, jobId, "failed")
  /\ IF jobId \in DOMAIN jobs
     THEN /\ jobs' = [jobs EXCEPT ![jobId].status = "failed"]
          /\ hist' = [hist EXCEPT ![jobId].stopped = TRUE]
     ELSE UNCHANGED <<jobs, hist>>
  /\ IF jobId \in Ids
     THEN runs' = [runs EXCEPT ![jobId].onScript = FALSE]
     ELSE runs' = runs
  /\ UNCHANGED <<processing, currentJobId, profiles, results, token, files, resumes>>

\* The server as its routes drive it: one job is started, and jobs are paused
\* and stopped by persisted id (no route calls resumeJob)
NextRoutes ==
  \/ /\ \E bs \in QueueBatchSizes : Len(jobs) < 1 /\ StartJob(bs)
     /\ UNCHANGED clientVars
  \/ /\ \E jobId \in PersistedIds : PauseRoute(jobId)
     /\ UNCHANGED clientVars
  \/ /\ \E jobId \in PersistedIds : StopRoute(jobId)
     /\ UNCHANGED clientVars
  \/ /\ SetToken
     /\ UNCHANGED clientVars
  \/ /\ \E id \in DOMAIN jobs, urls \in FileLists : Parse(id, urls, UrlLists)
     /\ UNCHANGED clientVars
  \/ /\ \E id \in DOMAIN jobs : CreateProfiles(id)
     /\ UNCHANGED clientVars
  \/ /\ \E id \in DOMAIN jobs : GetUser(id)
     /\ UNCHANGED clientVars
  \/ /\ \E id \in DOMAIN jobs, out \in QueueOutcomes : Extract(id, out)
     /\ UNCHANGED clientVars
  \/ /\ \E id \in DOMAIN jobs : Backoff(id)
     /\ UNCHANGED clientVars
  \/ /\ \E id \in DOMAIN jobs : ItemDelay(id)
     /\ UNCHANGED clientVars
  \/ /\ \E id \in DOMAIN jobs : BatchDelay(id)
     /\ UNCHANGED clientVars
  \/ /\ \E id \in DOMAIN jobs : Export(id)
     /\ UNCHANGED clientVars
  \/ /\ \E id \in DOMAIN jobs : Rescan(id)
     /\ UNCHANGED clientVars

SpecRoutes == InitRoutes /\ [][NextRoutes]_vars

(* ----------------------- runs left undisturbed ------------------------ *)
\* the batch sizes a request may carry: insertJobSchema takes any integer
AnyBatchSizes == (0 - MaxBatch)..MaxBatch

\* a step of the loop of startProcessing or of the processJob call it awaits:
\* the collaborator call or the delay that the run waits for returns
RunStep ==
  /\ \/ \E id \in DOMAIN jobs, urls \in FileLists : Parse(id, urls, UrlLists)
     \/ \E id \in DOMAIN jobs : CreateProfiles(id)
     \/ \E id \in DOMAIN jobs : GetUser(id)
     \/ \E id \in DOMAIN jobs, out \in QueueOutcomes : Extract(id, out)
     \/ \E id \in DOMAIN jobs : Backoff(id)
     \/ \E id \in DOMAIN jobs : ItemDelay(id)
     \/ \E id \in DOMAIN jobs : BatchDelay(id)
     \/ \E id \in DOMAIN jobs : Export(id)
     \/ \E id \in DOMAIN jobs : Rescan(id)
  /\ UNCHANGED clientVars

\* One job with any batch size, which nobody pauses, stops or resumes
NextTerm ==
  \/ /\ \E bs \in AnyBatchSizes : Len(jobs) < 1 /\ StartJob(bs)
     /\ UNCHANGED clientVars
  \/ /\ SetToken
     /\ UNCHANGED clientVars
  \/ /\ \E id \in DOMAIN jobs, urls \in FileLists : Parse(id, urls, UrlLists)
     /\ UNCHANGED clientVars
  \/ /\ \E id \in DOMAIN jobs : CreateProfiles(id)
     /\ UNCHANGED clientVars
  \/ /\ \E id \in DOMAIN jobs : GetUser(id)
     /\ UNCHANGED clientVars
  \/ /\ \E id \in DOMAIN jobs, out \in QueueOutcomes : Extract(id, out)
     /\ UNCHANGED clientVars
  \/ /\ \E id \in DOMAIN jobs : Backoff(id)
     /\ UNCHANGED clientVars
  \/ /\ \E id \in DOMAIN jobs : ItemDelay(id)
     /\ UNCHANGED clientVars
  \/ /\ \E id \in DOMAIN jobs : BatchDelay(id)
     /\ UNCHANGED clientVars
  \/ /\ \E id \in DOMAIN jobs : Export(id)
     /\ UNCHANGED clientVars
  \/ /\ \E id \in DOMAIN jobs : Rescan(id)
     /\ UNCHANGED clientVars

\* every promise the run awaits is settled and every timer fires: a run that
\* can take a step takes one
SpecTerm == Init /\ [][NextTerm]_vars /\ WF_vars(RunStep)

(* ------------------------- browser: apiRequest ------------------------- *)
\* the server process has not been used
QueueIdle ==
  /\ jobs = <<>>
  /\ processing = FALSE
  /\ currentJobId = 1
  /\ runs = [id \in Ids |-> NoRun]
  /\ store = <<>>
  /\ profiles = <<>>
  /\ results = <<>>
  /\ token = FALSE
  /\ files = <<>>
  /\ hist = [id \in Ids |-> NoHist]
  /\ resumes = 0

\* what the server answers to the request: a 2xx response, a 401, another
\* status, or no answer at all (fetch rejects)
FetchAnswers == {"ok", "unauthorized", "error", "rejects"}

\* what the server answers to POST /api/auth/refresh: the new tokens, a status
\* that is not ok, no answer at all, or a 2xx response whose body is not JSON
RefreshAnswers == {"ok", "denied", "rejects", "malformed"}

\* the number of the requests of the given kind that the call has sent
Sent(requests, kind) == Cardinality({k \in DOMAIN requests : requests[k] = kind})

InitApi ==
  /\ QueueIdle
  /\ localStorage \in Storages
  /\ api = NoCall
  /\ retry = NoRetry
  /\ cache = NoCache
  /\ mutations = [m \in 1..MaxMutations |-> NoMutation]
  /\ isOptimistic = FALSE

\* apiRequest is called (version 1: lib/queryClient.ts, version 2: the enhanced
\* one), up to its first await: the request is sent
ApiRequest(version) ==
  /\ api.pc \in {"idle", "returned", "thrown"}
  /\ api' = [version |-> version, pc |-> "fetch", requests |-> <<"request">>, error |-> "none"]
  /\ UNCHANGED <<queueVars, localStorage, retry, cache, mutations, isOptimistic>>

ApiReturn(a) == [a EXCEPT !.pc = "returned"]

ApiThrow(a, error) == [a EXCEPT !.pc = "thrown", !.error = error]

\* version 1: the answer to the request arrives
ApiFetchV1(answer) ==
  /\ api.version = 1 /\ api.pc = "fetch"
  /\ api' = IF answer = "ok" THEN ApiReturn(api)
            ELSE IF answer = "rejects" THEN ApiThrow(api, "network")
            ELSE IF answer = "error" THEN ApiThrow(api, "status")
            ELSE IF localStorage.refreshToken
            THEN [api EXCEPT !.pc = "refresh", !.requests = Append(@, "refresh")]
            ELSE ApiThrow(api, "Authentication required")
  /\ UNCHANGED <<queueVars, localStorage, retry, cache, mutations, isOptimistic>>

\* version 1: the answer to the refresh arrives; on new tokens the request is
\* sent once more
ApiRefreshV1(answer) ==
  /\ api.version = 1 /\ api.pc = "refresh"
  /\ IF answer = "ok"
     THEN /\ localStorage' = [localStorage EXCEPT !.accessToken = TRUE]
          /\ api' = [api EXCEPT !.pc = "retry", !.requests = Append(@, "request")]
     ELSE IF answer = "denied"
     THEN /\ api' = ApiThrow(api, "status")
          /\ UNCHANGED localStorage
     ELSE /\ localStorage' = EmptyStorage
          /\ api' = ApiThrow(api, "Authentication failed")
  /\ UNCHANGED <<queueVars, retry, cache, mutations, isOptimistic>>

\* version 1: the answer to the retried request arrives
ApiRetryV1(answer) ==
  /\ api.version = 1 /\ api.pc = "retry"
  /\ IF answer = "ok"
     THEN /\ api' = ApiReturn(api)
          /\ UNCHANGED localStorage
     ELSE /\ localStorage' = EmptyStorage
          /\ api' = ApiThrow(api, "Authentication failed")
  /\ UNCHANGED <<queueVars, retry, cache, mutations, isOptimistic>>

\* version 2: the answer to the request arrives (the requests of the nested
\* apiRequest calls are requests of the call that returns their promise).  A
\* further refresh is followed while fewer than MaxRefreshes were sent.
ApiFetchV2(answer) ==
  /\ api.version = 2 /\ api.pc = "fetch"
  /\ IF answer = "ok"
     THEN /\ api' = ApiReturn(api)
          /\ UNCHANGED localStorage
     ELSE IF answer = "rejects"
     THEN /\ api' = ApiThrow(api, "network")
          /\ UNCHANGED localStorage
     ELSE IF answer = "error"
     THEN /\ api' = ApiThrow(api, "status")
          /\ UNCHANGED localStorage
     ELSE IF localStorage.auth = "both"
     THEN /\ Sent(api.requests, "refresh") < MaxRefreshes
          /\ api' = [api EXCEPT !.pc = "refresh", !.requests = Append(@, "refresh")]
          /\ UNCHANGED localStorage
     ELSE /\ localStorage' = [localStorage EXCEPT !.auth = "none"]
          /\ api' = ApiThrow(api, "status")
  /\ UNCHANGED <<queueVars, retry, cache, mutations, isOptimistic>>

\* version 2: the answer to the refresh arrives; on new tokens apiRequest calls
\* itself and returns the promise of the nested call
ApiRefreshV2(answer) ==
  /\ api.version = 2 /\ api.pc = "refresh"
  /\ IF answer = "ok"
     THEN /\ localStorage' = [localStorage EXCEPT !.auth = "both"]
          /\ api' = [api EXCEPT !.pc = "fetch", !.requests = Append(@, "request")]
     ELSE /\ localStorage' = [localStorage EXCEPT !.auth = "none"]
          /\ api' = ApiThrow(api, "status")
  /\ UNCHANGED <<queueVars, retry, cache, mutations, isOptimistic>>

NextApi ==
  \/ \E version \in {1, 2} : ApiRequest(version)
  \/ \E answer \in FetchAnswers : ApiFetchV1(answer)
  \/ \E answer \in RefreshAnswers : ApiRefreshV1(answer)
  \/ \E answer \in FetchAnswers : ApiRetryV1(answer)
  \/ \E answer \in FetchAnswers : ApiFetchV2(answer)
  \/ \E answer \in RefreshAnswers : ApiRefreshV2(answer)

SpecApi == InitApi /\ [][NextApi]_vars

(* ---------------------- browser: retryWithBackoff ---------------------- *)
\* Error messages of the operation, as the set of the words that
\* getUserFriendlyErrorMessage looks for in the lower-cased message text
RetryMessages == {{}, {"network"}, {"401"}, {"network", "401"}, {"token", "500"}, {"429"}}

\* getUserFriendlyErrorMessage: the first test that matches decides
getUserFriendlyErrorMessage(message) ==
  IF message \cap {"network", "fetch", "connection"} # {}
  THEN [kind |-> "network", retryable |-> TRUE]
  ELSE IF message \cap {"401", "unauthorized", "token"} # {}
  THEN [kind |-> "authentication", retryable |-> FALSE]
  ELSE IF message \cap {"validation", "invalid", "400"} # {}
  THEN [kind |-> "validation", retryable |-> TRUE]
  ELSE IF message \cap {"500", "server", "internal"} # {}
  THEN [kind |-> "server", retryable |-> TRUE]
  ELSE IF message \cap {"429", "rate limit", "too many"} # {}
  THEN [kind |-> "rate limit", retryable |-> TRUE]
  ELSE IF message \cap {"file", "upload", "size"} # {}
  THEN [kind |-> "file", retryable |-> TRUE]
  ELSE [kind |-> "unknown", retryable |-> TRUE]

\* the options of a call: maxRetries as passed, baseDelay and maxDelay by default
RetryOptions == (0 - 1)..MaxRetriesOption

BaseDelay == 1000

MaxDelay == 10000

\* Math.random() * 1000, to the millisecond: the least and the greatest value
Jitters == {0, 999}

RECURSIVE Pow2(_)
Pow2(n) == IF n = 0 THEN 1 ELSE 2 * Pow2(n - 1)

InitRetry ==
  /\ QueueIdle
  /\ localStorage = EmptyStorage
  /\ api = NoCall
  /\ retry = NoRetry
  /\ cache = NoCache
  /\ mutations = [m \in 1..MaxMutations |-> NoMutation]
  /\ isOptimistic = FALSE

\* retryWithBackoff is called: the loop is entered and the operation invoked,
\* or the loop has nothing to do and lastError is thrown as it is (undefined)
RetryWithBackoff(maxRetries) ==
  /\ retry.pc = "idle"
  /\ retry' = IF 0 <= maxRetries
              THEN [NoRetry EXCEPT !.pc = "invoke", !.maxRetries = maxRetries, !.invocations = 1]
              ELSE [NoRetry EXCEPT !.pc = "thrown", !.maxRetries = maxRetries]
  /\ UNCHANGED <<queueVars, localStorage, api, cache, mutations, isOptimistic>>

\* the operation resolves: its value is returned
OperationResolves ==
  /\ retry.pc = "invoke"
  /\ retry' = [retry EXCEPT !.pc = "returned"]
  /\ UNCHANGED <<queueVars, localStorage, api, cache, mutations, isOptimistic>>

\* (variant: every error is retried while attempts are left)
OperationRejectsRetriesAll(message, jitter) ==
  /\ retry.pc = "invoke"
  /\ LET r == [retry EXCEPT !.errors = Append(@, message)]
     IN retry' =
          IF r.attempt = r.maxRetries
          THEN [r EXCEPT !.pc = "thrown", !.thrown = <<message>>]
          ELSE [r EXCEPT !.pc = "delay",
                         !.onRetry = Append(@, r.attempt + 1),
                         !.delay = Min(BaseDelay * Pow2(r.attempt) + jitter, MaxDelay)]
  /\ UNCHANGED <<queueVars, localStorage, api, cache, mutations, isOptimistic>>

\* the operation rejects: the loop is left on the last attempt and on an error
\* that is not retryable, else onRetry is called and the delay begins
OperationRejects(message, jitter) ==
  /\ retry.pc = "invoke"
  /\ LET r == [retry EXCEPT !.errors = Append(@, message)]
     IN retry' =
          IF r.attempt = r.maxRetries
          THEN [r EXCEPT !.pc = "thrown", !.thrown = <<message>>]
          ELSE IF ~getUserFriendlyErrorMessage(message).retryable
          THEN [r EXCEPT !.pc = "thrown", !.thrown = <<message>>]
          ELSE [r EXCEPT !.pc = "delay",
                         !.onRetry = Append(@, r.attempt + 1),
                         !.delay = Min(BaseDelay * Pow2(r.attempt) + jitter, MaxDelay)]
  /\ UNCHANGED <<queueVars, localStorage, api, cache, mutations, isOptimistic>>

\* the delay has elapsed: attempt++ and the operation is invoked again
RetryDelayElapsed ==
  /\ retry.pc = "delay"
  /\ retry' = [retry EXCEPT !.pc = "invoke", !.attempt = @ + 1, !.invocations = @ + 1,
                            !.delay = 0]
  /\ UNCHANGED <<queueVars, localStorage, api, cache, mutations, isOptimistic>>

NextRetry ==
  \/ \E maxRetries \in RetryOptions : RetryWithBackoff(maxRetries)
  \/ OperationResolves
  \/ \E message \in RetryMessages, jitter \in Jitters : OperationRejects(message, jitter)
  \/ RetryDelayElapsed

SpecRetry == InitRetry /\ [][NextRetry]_vars

(* -------------------- browser: useOptimisticUpdates -------------------- *)
\* optimisticUpdate.updateFn is the caller's: here it adds the variables of the
\* mutation to the list (to an empty list when there was no data)
updateFn(oldData, variables) == Data(Append(oldData.items, variables))

\* what `if (context?.previousData)` tests: undefined is falsy, a list is truthy
Truthy(data) == data.defined

\* what the cache may hold when the first mutation starts
CachedData == {Undefined, Data(<<>>), Data(<<0>>)}

InitCache ==
  /\ QueueIdle
  /\ localStorage = EmptyStorage
  /\ api = NoCall
  /\ retry = NoRetry
  /\ \E data \in CachedData : cache = [data |-> data, before |-> data, stale |-> FALSE]
  /\ mutations = [m \in 1..MaxMutations |-> NoMutation]
  /\ isOptimistic = FALSE

\* mutate(variables): onMutate runs up to `await queryClient.cancelQueries`
Mutate(m) ==
  /\ mutations[m].pc = "idle"
  /\ mutations' = [mutations EXCEPT ![m].pc = "onMutate", ![m].variables = m]
  /\ isOptimistic' = TRUE
  /\ UNCHANGED <<queueVars, localStorage, api, retry, cache>>

\* the rest of onMutate: the cached data is kept as the context of the
\* mutation and the optimistic data is cached; mutationFn is called
OnMutate(m) ==
  /\ mutations[m].pc = "onMutate"
  /\ mutations' = [mutations EXCEPT ![m].pc = "pending", ![m].previousData = cache.data]
  /\ cache' = [cache EXCEPT !.data = updateFn(@, mutations[m].variables)]
  /\ UNCHANGED <<queueVars, localStorage, api, retry, isOptimistic>>

\* mutationFn rejects: onError writes the context back when it is truthy, and
\* onSettled follows
MutationFails(m) ==
  /\ mutations[m].pc = "pending"
  /\ mutations' = [mutations EXCEPT ![m].pc = "failed"]
  /\ isOptimistic' = FALSE
  /\ cache' = IF Truthy(mutations[m].previousData)
              THEN [cache EXCEPT !.data = mutations[m].previousData]
              ELSE cache
  /\ UNCHANGED <<queueVars, localStorage, api, retry>>

\* mutationFn resolves: onSuccess invalidates the query, and onSettled follows
MutationSucceeds(m) ==
  /\ mutations[m].pc = "pending"
  /\ mutations' = [mutations EXCEPT ![m].pc = "succeeded"]
  /\ isOptimistic' = FALSE
  /\ cache' = [cache EXCEPT !.stale = TRUE]
  /\ UNCHANGED <<queueVars, localStorage, api, retry>>

NextCache ==
  \/ \E m \in 1..MaxMutations : Mutate(m)
  \/ \E m \in 1..MaxMutations : OnMutate(m)
  \/ \E m \in 1..MaxMutations : MutationFails(m)
  \/ \E m \in 1..MaxMutations : MutationSucceeds(m)

SpecCache == InitCache /\ [][NextCache]_vars

TypeOK ==
  /\ processing \in BOOLEAN
  /\ currentJobId = Len(jobs) + 1
  /\ \A id \in DOMAIN jobs : jobs[id].status \in {"pending", "processing", "paused", "completed", "failed"}

(* ============================== properties ============================= *)
InBatch(r) == r.pc \in {"extract", "backoff", "itemDelay", "batchDelay"}

\* the first attempt of a further item of job id starts in this step
ItemStarts(id) == runs[id].pc \notin {"extract", "backoff"} /\ runs'[id].pc = "extract"

\* a batch of job id starts in this step
BatchStarts(id) == runs'[id].batchNo > runs[id].batchNo

NonRetryable == {"not_found", "access_restricted"}

(* C1: in every state of a run, and in every progress snapshot persisted  *)
(* through updateJobStatus, processed = successful + failed.              *)
C1_CountersAddUp ==
  /\ \A id \in Ids : runs[id].processed = runs[id].successful + runs[id].failed
  /\ \A k \in DOMAIN store :
        store[k].processedProfiles = store[k].successfulProfiles + store[k].failedProfiles

C1_Witness ==
  \E id \in DOMAIN jobs :
    /\ runs[id].successful >= 1 /\ runs[id].failed >= 1
    /\ store[JobIdOf(id)].processedProfiles = runs[id].processed
    /\ store[JobIdOf(id)].failedProfiles >= 1

(* C2: at most one job is run at a time: at most one job of the queue has *)
(* status processing, and while the processJob call of one job has not    *)
(* returned to the loop no other job has a call in progress (so none of   *)
(* its items is being extracted).                                         *)
C2_OneJobAtATime ==
  /\ Cardinality({id \in DOMAIN jobs : jobs[id].status = "processing"}) <= 1
  /\ \A a, b \in Ids : a # b /\ runs[a].pc # "none" => runs[b].pc = "none"

C2_Witness ==
  \E a, b \in DOMAIN jobs :
    /\ a # b
    /\ runs[a].pc = "extract" /\ jobs[a].status = "paused"
    /\ jobs[b].status = "pending"

(* C3 (as claimed): once the queue status of a job is completed or failed *)
(* no step changes it.                                                    *)
C3_TerminalStatusKept ==
  [][\A id \in DOMAIN jobs :
       jobs[id].status \in {"completed", "failed"} => jobs'[id].status = jobs[id].status]_vars

(* C4 (as claimed): stopJob sets the status failed whatever the status    *)
(* was, and after stopJob has returned no further item of the job is      *)
(* processed: the first attempt of no item starts.                        *)
C4_NoItemAfterStop ==
  [][\A id \in DOMAIN jobs :
       /\ StopJob(id) => jobs'[id].status = "failed"
       /\ hist[id].stopped => ~ItemStarts(id)]_vars

(* C4 (amended): stopJob sets the status failed whatever the status was,  *)
(* and after stopJob has returned no further batch of the job starts (the *)
(* items left in the batch in progress are still attempted).              *)
C4_NoBatchAfterStop ==
  [][\A id \in DOMAIN jobs :
       /\ StopJob(id) => jobs'[id].status = "failed"
       /\ hist[id].stopped => ~BatchStarts(id)]_vars

C4_Witness ==
  \E id \in DOMAIN jobs :
    /\ hist[id].stopped
    /\ runs[id].pc = "returned"
    /\ runs[id].processed >= 1 /\ runs[id].processed < Len(runs[id].urls)

(* C5: when pauseJob is applied to a job while its run is inside batch N  *)
(* (pausedBatch = N), the run never starts batch N+1, whatever is called  *)
(* afterwards, and when it leaves the batch loop every item of batch N    *)
(* has been concluded.                                                    *)
C5_PauseHaltsAtBoundary ==
  \A id \in DOMAIN jobs :
    LET r == runs[id]
    IN r.pausedBatch # 0 =>
         /\ r.batchNo = r.pausedBatch
         /\ r.pc \in {"returned", "export"} =>
               r.processed = Min(Len(r.urls), r.batchNo * jobs[id].data.batchSize)

C5_Witness ==
  \E id \in DOMAIN jobs :
    /\ runs[id].pausedBatch = 1
    /\ runs[id].pc = "returned"
    /\ jobs[id].data.batchSize = 2
    /\ runs[id].processed = 2 /\ Len(runs[id].urls) = 3

(* C6 (as claimed): a run started after resumeJob continues where the     *)
(* halted run stopped: it attempts only items after the k items already   *)
(* processed and its counters continue from k.                            *)
C6_ResumeContinues ==
  \A id \in DOMAIN jobs :
    hist[id].started >= 2 /\ InBatch(runs[id]) =>
      /\ runs[id].i + runs[id].j > hist[id].halted
      /\ runs[id].processed >= hist[id].halted

(* C7 (as claimed): an item marked failed with not_found or               *)
(* access_restricted was attempted exactly once: no attempt preceded the  *)
(* one that failed.                                                       *)
C7_AttemptedOnce ==
  [][\A id \in DOMAIN jobs :
       /\ runs[id].pc = "extract" /\ runs'[id].pc = "itemDelay"
       /\ runs'[id].concl \in NonRetryable
       => runs[id].retryCount = 0]_vars

(* C7 (amended): an attempt that fails with not_found or access_restricted *)
(* is the last attempt of its item: no backoff and no retry follows it,   *)
(* the item is marked failed at once (attempts that failed with another   *)
(* kind of error may have preceded it).                                   *)
C7_NeverRetried ==
  \A id \in DOMAIN jobs :
    runs[id].pc = "backoff" => runs[id].errorType \in ErrorKinds \ NonRetryable

C7_Witness ==
  \E id \in DOMAIN jobs :
    /\ runs[id].pc = "itemDelay"
    /\ runs[id].concl \in NonRetryable
    /\ runs[id].failed = runs[id].processed

(* C8: an item is attempted at most 3 times, and the backoff delays are   *)
(* 1 s before the second attempt and 2 s before the third: the n-th delay *)
(* is 1 s * 2^(n-1), strictly increasing.                                 *)
C8_BackoffPattern ==
  \A id \in DOMAIN jobs :
    LET r == runs[id]
    IN /\ r.pc \in {"extract", "backoff"} => r.retryCount < MaxRetries
       /\ r.pc = "backoff" =>
            /\ r.retryCount >= 1
            /\ r.delay = InitialDelay * 2 ^ (r.retryCount - 1)
            /\ r.delay \in {1000, 2000, 4000}

C8_Witness ==
  \E id \in DOMAIN jobs :
    /\ runs[id].pc = "backoff"
    /\ runs[id].retryCount = 2 /\ runs[id].delay = 2000
    /\ runs[id].errorType \in {"rate_limit", "unknown"}

(* C9 (as claimed): a job whose file holds no URL is never persisted as   *)
(* processing (its startedAt is never set).                               *)
C9_EmptyNeverProcessing ==
  \A id \in DOMAIN jobs :
    files[JobIdOf(id)] = <<>> =>
      /\ jobs[id].status # "processing"
      /\ store[JobIdOf(id)].status # "processing"
      /\ ~store[JobIdOf(id)].started

(* C10: a run on three distinct items in which item 1 succeeds, item 2    *)
(* fails with not_found and item 3 fails with rate_limit and then         *)
(* succeeds, with no pause, stop or resume, ends with processed = 3,      *)
(* successful = 2, failed = 1, status completed, and an export of 3 rows  *)
(* in which exactly item 2 is failed, with kind not_found.                *)
C10_EndToEnd ==
  \A id \in DOMAIN jobs :
    LET r == runs[id]
        j == JobIdOf(id)
    IN r.onScript /\ r.urls = ScenarioUrls /\ r.pc = "returned" =>
         /\ r.processed = 3 /\ r.successful = 2 /\ r.failed = 1
         /\ store[j].processedProfiles = 3 /\ store[j].successfulProfiles = 2
         /\ store[j].failedProfiles = 1
         /\ jobs[id].status = "completed" /\ store[j].status = "completed"
         /\ Len(results[j]) = 3
         /\ \A k \in 1..3 : results[j][k].url = ScenarioUrls[k]
         /\ results[j][1].status = "success" /\ results[j][3].status = "success"
         /\ results[j][2].status = "failed" /\ results[j][2].errorType = "not_found"

C10_Witness ==
  \E id \in DOMAIN jobs :
    /\ runs[id].onScript /\ runs[id].urls = ScenarioUrls /\ runs[id].pc = "returned"
    /\ store[JobIdOf(id)].resultPath

\* job id is selected by the loop in this step (its processJob call begins)
Selected(id) == hist'[id].started > hist[id].started

(* C11: whenever the loop selects a job, that job was pending (just       *)
(* inserted, just resumed, or waiting) and no job inserted before it is   *)
(* pending: the earliest pending job in insertion order is the one taken, *)
(* a resumed job at its original position.                                *)
C11_FifoSelection ==
  [][\A id \in Ids :
       Selected(id) =>
         /\ id \in DOMAIN jobs' /\ jobs'[id].status = "processing"
         /\ id \in DOMAIN jobs => jobs[id].status \in {"pending", "paused"}
         /\ \A m \in 1..(id - 1) : jobs'[m].status # "pending"
         /\ \A m \in DOMAIN jobs' : m # id /\ m \in DOMAIN jobs => jobs'[m] = jobs[m]]_vars

\* a resumed job 1 was selected again while job 2, inserted after it, waits
C11_Witness ==
  /\ Len(jobs) = 2
  /\ jobs[1].status = "processing" /\ hist[1].started = 2
  /\ jobs[2].status = "pending" /\ hist[2].started = 0

\* the loop is not running: the flag is down
Idle == ~processing

(* C12: whenever the queue is idle no job is pending and no processJob    *)
(* call is in progress (the loop went idle only on a scan that found no   *)
(* pending job), and an addJob or an effective resumeJob issued while     *)
(* idle starts the loop, which selects that job at once.                  *)
C12_NoLostWakeup ==
  /\ [](Idle => /\ \A id \in DOMAIN jobs : jobs[id].status # "pending"
                /\ \A id \in Ids : runs[id].pc = "none")
  /\ [][\A id \in Ids :
          /\ (Idle /\ Len(jobs') > Len(jobs) /\ id = Len(jobs'))
                => ~Idle' /\ jobs'[id].status = "processing" /\ runs'[id].pc = "parse"
          /\ (Idle /\ id \in DOMAIN jobs /\ jobs[id].status = "paused" /\ resumes' > resumes
                /\ ResumeJob(id))
                => ~Idle' /\ jobs'[id].status = "processing" /\ runs'[id].pc = "parse"]_vars

\* the queue is idle again although one of its jobs is not finished (paused),
\* after the other was run
C12_Witness ==
  /\ Idle /\ Len(jobs) = 2
  /\ \E a, b \in DOMAIN jobs :
        /\ jobs[a].status = "paused"
        /\ jobs[b].status \in {"completed", "failed"} /\ hist[b].started >= 1

(* C13 (as claimed): a job that resumeJob has set back to pending stays   *)
(* pending until the loop selects it and sets it to processing again      *)
(* (or until it is failed by stopJob or by an error of the run still in   *)
(* progress); resumeJob on a job that is not paused changes nothing.      *)
C13_ResumedJobSelected ==
  [][\A id \in DOMAIN jobs :
       /\ (ResumeJob(id) /\ jobs[id].status # "paused") => UNCHANGED vars
       /\ (ResumeJob(id) /\ jobs[id].status = "paused") =>
             jobs'[id].status = IF Idle THEN "processing" ELSE "pending"
       /\ (jobs[id].status = "pending" /\ hist[id].started >= 1
             /\ jobs'[id].status # "pending") =>
             jobs'[id].status \in {"processing", "failed"}]_vars

(* C14: pauseJob changes the status of a job only from processing to      *)
(* paused; on a job of any other status and on an unknown id it leaves    *)
(* the jobs, the flag, the id counter, the position of every run and the  *)
(* storage as they are.                                                   *)
C14_PauseFrame ==
  [][\A id \in Ids :
       PauseJob(id) =>
         /\ \A k \in DOMAIN jobs :
               jobs'[k] = IF k = id /\ jobs[k].status = "processing"
                          THEN [jobs[k] EXCEPT !.status = "paused"] ELSE jobs[k]
         /\ DOMAIN jobs' = DOMAIN jobs
         /\ \A k \in Ids : [runs'[k] EXCEPT !.onScript = FALSE, !.pausedBatch = 0]
                              = [runs[k] EXCEPT !.onScript = FALSE, !.pausedBatch = 0]
         /\ UNCHANGED <<processing, currentJobId, store, profiles, results, token, files>>]_vars

\* a pause took effect on the job being run while another job stayed pending
C14_Witness ==
  \E a, b \in DOMAIN jobs :
    /\ jobs[a].status = "paused" /\ runs[a].pausedBatch = 1
    /\ jobs[b].status = "pending"

\* an attempt of job id returns or throws in this step
ExtractStep(id) == runs[id].pc = "extract" /\ runs'[id].pc # "extract"

\* the run of job id leaves the batch loop in this step
LeavesLoop(id) == InBatch(runs[id]) /\ ~InBatch(runs'[id])

\* a collaborator call of the run of job id throws in this step, and the
\* storage call of the catch block of processJob, where it is reached, succeeds
Thrown(id) ==
  \/ ParseThrows(id, TRUE)
  \/ \E n \in 0..MaxUrls : CreateThrows(id, n, TRUE)
  \/ GetUserThrows(id, TRUE)
  \/ RecordThrows(id)
  \/ \E out \in QueueOutcomes : CatchRecordThrows(id, out, TRUE)
  \/ \E out \in QueueOutcomes : ProgressThrows(id, out, TRUE)
  \/ ExportThrows(id, TRUE)

(* C15 (as claimed): when a call of the run into the file reader, the     *)
(* storage or the export writer throws, the job is failed in the queue    *)
(* and in the storage and its run is over (no further item is attempted,  *)
(* the loop scans for the next pending job).                              *)
C15_ExceptionFailsJob ==
  [][\A id \in DOMAIN jobs :
       Thrown(id) =>
         /\ jobs'[id].status = "failed"
         /\ store'[JobIdOf(id)].status = "failed"
         /\ runs'[id].pc = "returned"]_vars

C17_NoTokenNoExtraction ==
  ~token =>
    \A id \in DOMAIN jobs :
      LET r == runs[id]
          j == JobIdOf(id)
      IN /\ ~InBatch(r) /\ r.pc # "export"
         /\ r.processed = 0
         /\ store[j].processedProfiles = 0 /\ store[j].successfulProfiles = 0
         /\ store[j].failedProfiles = 0 /\ ~store[j].resultPath
         /\ \A k \in DOMAIN profiles[j] : profiles[j][k].status = "pending"
         /\ jobs[id].status # "completed"
         /\ (hist[id].started >= 1 /\ r.pc \in {"returned", "none"}) =>
               jobs[id].status = "failed" /\ store[j].status = "failed"

\* the records were created, the token lookup found none and the job failed
C17_Witness ==
  /\ ~token
  /\ \E id \in DOMAIN jobs :
        /\ runs[id].pc = "returned" /\ Len(runs[id].urls) = 2
        /\ Len(profiles[JobIdOf(id)]) = 2
        /\ jobs[id].status = "failed" /\ store[JobIdOf(id)].status = "failed"

(* C18 (as claimed): in every persisted job row the processed count is at *)
(* most the total recorded on the job at submission, so that              *)
(* remaining = total - processed, as GET /api/jobs/current-status         *)
(* computes it, is never negative.                                        *)
C18_ProcessedWithinTotal ==
  \A k \in DOMAIN store :
    /\ store[k].processedProfiles <= store[k].totalProfiles
    /\ store[k].totalProfiles - store[k].processedProfiles >= 0

(* C19 (as claimed): an item record whose status is success or failed is  *)
(* not changed by any later step.                                         *)
C19_TerminalRecordKept ==
  [][\A j \in DOMAIN profiles : \A k \in DOMAIN profiles[j] :
       profiles[j][k].status \in {"success", "failed"} => profiles'[j][k] = profiles[j][k]]_vars

(* C20: the items of a run are attempted in the order of the resolved     *)
(* list, one after the other: the item being attempted is the one that    *)
(* follows the items concluded so far, it is the element of the list at   *)
(* that position, and no position is skipped or repeated, for every batch *)
(* size.                                                                  *)
C20_FileOrder ==
  \A id \in DOMAIN jobs :
    LET r == runs[id]
    IN InBatch(r) =>
         /\ r.j >= 1 /\ r.j <= Len(BatchOf(id, r))
         /\ r.i + r.j <= Len(r.urls)
         /\ BatchOf(id, r)[r.j] = r.urls[r.i + r.j]
         /\ r.i + r.j = r.processed + (IF r.pc \in {"extract", "backoff"} THEN 1 ELSE 0)

\* the third item of three is being attempted in the second batch of size 2
C20_Witness ==
  \E id \in DOMAIN jobs :
    /\ jobs[id].data.batchSize = 2 /\ runs[id].urls = ScenarioUrls
    /\ runs[id].pc = "backoff" /\ runs[id].i = 2 /\ runs[id].j = 1
    /\ runs[id].processed = 2

\* a loop of startProcessing is running: some processJob call is in progress
\* or has just returned to the loop
LoopRunning == \E id \in DOMAIN jobs : runs[id].pc \notin {"none", "crashed"}

(* C24 (as claimed): the queue is never wedged by a collaborator that     *)
(* throws: this.processing is true only while a loop of startProcessing   *)
(* is running, whatever call of the run has thrown, the storage call of   *)
(* the failure handler included.                                          *)
C24_NeverWedged == processing => LoopRunning

\* the number of the records in ps with the given status
CountStatus(ps, status) == Cardinality({k \in DOMAIN ps : ps[k].status = status})

(* C25 (as claimed): when a job that was run once is completed, its item  *)
(* records agree with its persisted counters: as many records are success *)
(* as successfulProfiles says, as many are failed as failedProfiles says, *)
(* and none is pending, for every URL list, lists that hold a URL more    *)
(* than once included.                                                    *)
C25_RecordsMatchCounters ==
  \A id \in DOMAIN jobs :
    (jobs[id].status = "completed" /\ hist[id].started = 1) =>
      LET ps == profiles[JobIdOf(id)]
          job == store[JobIdOf(id)]
      IN /\ CountStatus(ps, "success") = job.successfulProfiles
         /\ CountStatus(ps, "failed") = job.failedProfiles
         /\ CountStatus(ps, "pending") = 0

(* C21: whenever a job is persisted as completed its resultPath is set    *)
(* and its export was written; the status completed is stored only by the *)
(* step that writes the export, together with the resultPath, and by no   *)
(* other write (the pause and stop routes included).                      *)
C21_CompletedHasResult ==
  /\ [](\A k \in DOMAIN store :
          store[k].status = "completed" => store[k].resultPath /\ results[k] # <<>>)
  /\ [][\A k \in DOMAIN store :
          (store'[k].status = "completed" /\ store[k].status # "completed") =>
             /\ \E id \in DOMAIN jobs :
                   JobIdOf(id) = k /\ runs[id].pc = "export" /\ runs'[id].pc = "returned"
             /\ store'[k].resultPath
             /\ results'[k] = ExportRows(profiles[k])
             /\ results'[k] # <<>>]_vars

\* a job started after an earlier process had left a row is persisted as
\* completed, with its export
C21_Witness ==
  \E id \in DOMAIN jobs :
    /\ JobIdOf(id) = 2
    /\ store[2].status = "completed" /\ store[2].resultPath
    /\ Len(results[2]) = 1
    /\ runs[id].pc = "returned"

\* no processJob call for job id is in progress
AtRest(id) == runs[id].pc \in {"none", "returned"}

(* C22 (as claimed): after a pause (resp. stop) request made through the  *)
(* route, once the run of the job has halted and the queue holds the job  *)
(* as paused (resp. failed), the persisted status has not been written    *)
(* back to processing by a progress snapshot.  (Jobs whose persisted id   *)
(* is their queue id.)                                                    *)
C22_StatusesAgreeAtRest ==
  \A id \in DOMAIN jobs :
    (JobIdOf(id) = id /\ AtRest(id) /\ jobs[id].status \in {"paused", "failed"}) =>
       store[id].status # "processing"

(* C23 (as claimed): a pause or stop request for persisted job X changes  *)
(* the queue entry whose data.jobId is X, and no other entry.             *)
C23_RouteReachesJob ==
  [][\A X \in PersistedIds :
       (PauseRoute(X) \/ StopRoute(X)) =>
          /\ \A id \in DOMAIN jobs : jobs'[id] # jobs[id] => JobIdOf(id) = X
          /\ \A id \in DOMAIN jobs :
                (JobIdOf(id) = X /\ jobs[id].status = "processing") =>
                   jobs'[id].status \in {"paused", "failed"}]_vars

(* C26 (as claimed): every run terminates: whatever the batch size of    *)
(* the request, when every call and delay of the run returns and nobody   *)
(* pauses, stops or resumes, a submitted job is eventually completed or   *)
(* failed, and the queue is eventually idle.                              *)
C26_RunTerminates ==
  \A id \in Ids :
    (id \in DOMAIN jobs) ~>
       (id \in DOMAIN jobs /\ jobs[id].status \in {"completed", "failed"} /\ ~processing)

(* C27 (as claimed): on every set of stored jobs and for every user,     *)
(* DatabaseStorage.getActiveJob returns a job that is processing or       *)
(* paused whenever the user has one and undefined otherwise, as           *)
(* MemStorage.getActiveJob does.                                          *)
C27_GetActiveJobAgrees ==
  \A userId \in Users : \A res \in DbGetActiveJob(store, userId) :
    /\ (res = 0) = (MemGetActiveJob(store, userId) = 0)
    /\ res # 0 => Active(store[res]) /\ store[res].userId = userId

(* C28 (as claimed): one call of apiRequest, of either version, sends at  *)
(* most one token refresh and sends the request at most twice (once and   *)
(* one retry), whatever the server answers.                               *)
C28_OneRefreshOneRetry ==
  /\ Sent(api.requests, "refresh") <= 1
  /\ Sent(api.requests, "request") <= 2

(* C29: retryWithBackoff invokes the operation at most maxRetries + 1     *)
(* times; after a success it returns and invokes nothing more; an error   *)
(* that getUserFriendlyErrorMessage classifies as not retryable is the    *)
(* last invocation; onRetry has been called once before each              *)
(* re-invocation, with the attempt numbers 1, 2, ...; and when the call   *)
(* gives up it throws the error of the last invocation.                   *)
C29_RetryContract ==
  /\ [](LET r == retry
            n == Len(r.errors)
        IN /\ r.invocations <= (IF r.maxRetries < 0 THEN 0 ELSE r.maxRetries + 1)
           /\ r.pc = "returned" => r.invocations = n + 1
           /\ \A k \in 1..n :
                 ~getUserFriendlyErrorMessage(r.errors[k]).retryable =>
                    k = n /\ r.invocations = n /\ r.pc = "thrown"
           /\ r.onRetry = [k \in 1..(r.invocations - (IF r.pc = "delay" THEN 0 ELSE 1)) |-> k]
           /\ (r.pc = "thrown" /\ r.invocations > 0) =>
                 r.invocations = n /\ r.thrown = <<r.errors[n]>>)
  /\ [][retry.pc \in {"returned", "thrown"} => retry' = retry]_vars

\* with three retries allowed the call gives up after the second invocation:
\* the first error mentions both the network and a 401 and is retried, the
\* second is a 401
C29_Witness ==
  /\ retry.pc = "thrown" /\ retry.maxRetries = 3
  /\ retry.errors = <<{"network", "401"}, {"401"}>>
  /\ retry.invocations = 2 /\ retry.onRetry = <<1>>
  /\ retry.thrown = <<{"401"}>>

(* C30 (as claimed): once every mutation started on the query key has    *)
(* failed, the cached data is the data that was cached before the first   *)
(* optimistic update, whatever that data was and however the mutations    *)
(* overlapped.                                                            *)
C30_FailedMutationsReverted ==
  (/\ \E m \in 1..MaxMutations : mutations[m].pc # "idle"
   /\ \A m \in 1..MaxMutations : mutations[m].pc \in {"idle", "failed"})
  => cache.data = cache.before

====
